---- MODULE Spec2Model ----
(***************************************************************************)
(* A model of contacts_manager.py: the contact collection, its storage     *)
(* file contacts_data.json, the export file contacts.csv, the clock, and   *)
(* the menu loop with its eight handlers.                                  *)
(*                                                                         *)
(* A Python str is a sequence of one-character strings, so that strip(),   *)
(* lower(), re.sub() and re.match() are computed character by character.   *)
(* A dict is a sequence of entries in insertion order.  A point in time is *)
(* a number of ticks, TicksPerDay ticks to the day; isoformat() turns it   *)
(* into a <<date, time of day>> pair.                                      *)
(***************************************************************************)
EXTENDS Integers, Sequences, FiniteSets, TLC

\* ------------------------------------------------------------- bounds
\* The number of menu iterations of one run.
MaxOps == 3
\* The resolution of the clock.
TicksPerDay == 2
\* The statistics specification: contacts drawn, latest updated_at, latest clock.
MaxStatLen == 3
MaxStatUpd == 1
MaxStatNow == 17

\* ---------------------------------------------------- program constants
MinPhoneDigits == 10
MaxPhoneDigits == 15
RecentDays == 7

\* ------------------------------------------------------------ characters
Digit == {"0", "1", "2", "3", "4", "5", "6", "7", "8", "9"}
LowerSeq == <<"a", "b", "c", "d", "e", "f", "g", "h", "i", "j", "k", "l", "m",
              "n", "o", "p", "q", "r", "s", "t", "u", "v", "w", "x", "y", "z">>
UpperSeq == <<"A", "B", "C", "D", "E", "F", "G", "H", "I", "J", "K", "L", "M",
              "N", "O", "P", "Q", "R", "S", "T", "U", "V", "W", "X", "Y", "Z">>
Letter == {LowerSeq[i] : i \in DOMAIN LowerSeq} \cup {UpperSeq[i] : i \in DOMAIN UpperSeq}
Whitespace == {" ", "\t"}

\* Python's None.  No str equals it: a str holds one-character strings only.
None == <<"None">>

\* str.strip()
RECURSIVE LStrip(_)
LStrip(s) ==
    IF s # <<>> /\ Head(s) \in Whitespace THEN LStrip(Tail(s)) ELSE s

RECURSIVE RStrip(_)
RStrip(s) ==
    IF s # <<>> /\ s[Len(s)] \in Whitespace
    THEN RStrip(SubSeq(s, 1, Len(s) - 1))
    ELSE s

Strip(s) == RStrip(LStrip(s))

\* str.lower()
LowerChar(c) ==
    IF \E i \in DOMAIN UpperSeq : UpperSeq[i] = c
    THEN LowerSeq[CHOOSE i \in DOMAIN UpperSeq : UpperSeq[i] = c]
    ELSE c

StrLower(s) == [i \in DOMAIN s |-> LowerChar(s[i])]

\* `t in s` on two strs
Contains(s, t) ==
    \E i \in 0..(Len(s) - Len(t)) : SubSeq(s, i + 1, i + Len(t)) = t

\* ------------------------------------------------------------ validators
\* validate_phone letting nine digits through.
validate_phone_short(phone) ==
    LET digits == SelectSeq(phone, LAMBDA c : c \in Digit)
    IN  IF MinPhoneDigits - 1 <= Len(digits) /\ Len(digits) <= MaxPhoneDigits
        THEN <<TRUE, digits>>
        ELSE <<FALSE, None>>

\* re.sub(r'\D', '', phone), then the length test.
validate_phone(phone) ==
    LET digits == SelectSeq(phone, LAMBDA c : c \in Digit)
    IN  IF MinPhoneDigits <= Len(digits) /\ Len(digits) <= MaxPhoneDigits
        THEN <<TRUE, digits>>
        ELSE <<FALSE, None>>

\* ^[a-zA-Z0-9._%+-]+@[a-zA-Z0-9.-]+\.[a-zA-Z]{2,}$ : neither class holds "@"
\* and the last class holds no ".", so the match splits the str at its one
\* "@" and at its last ".".
LocalChar == Letter \cup Digit \cup {".", "_", "%", "+", "-"}
DomainChar == Letter \cup Digit \cup {".", "-"}

validate_email(email) ==
    \E i \in 1..Len(email), j \in 1..Len(email) :
        /\ 1 < i
        /\ email[i] = "@"
        /\ i + 1 < j
        /\ email[j] = "."
        /\ Len(email) - j >= 2
        /\ \A k \in 1..(i - 1) : email[k] \in LocalChar
        /\ \A k \in (i + 1)..(j - 1) : email[k] \in DomainChar
        /\ \A k \in (j + 1)..Len(email) : email[k] \in Letter

\* ----------------------------------------------------------------- time
\* datetime.isoformat() and datetime.fromisoformat()
IsoFormat(t) == <<t \div TicksPerDay, t % TicksPerDay>>
FromIsoFormat(s) == s[1] * TicksPerDay + s[2]

\* (a - b).days : whole days, rounded down
DeltaDays(a, b) == (a - b) \div TicksPerDay

\* ------------------------------------------------------------- the dict
Keys(cs) == {cs[i].name : i \in DOMAIN cs}
Has(cs, name) == \E i \in DOMAIN cs : cs[i].name = name
IndexOf(cs, name) == CHOOSE i \in DOMAIN cs : cs[i].name = name
GetItem(cs, name) == cs[IndexOf(cs, name)].info

\* contacts[name] = info : an existing key keeps its place
SetItem(cs, name, info) ==
    IF Has(cs, name)
    THEN [cs EXCEPT ![IndexOf(cs, name)].info = info]
    ELSE Append(cs, [name |-> name, info |-> info])

\* del contacts[name]
DelItem(cs, name) == SelectSeq(cs, LAMBDA e : e.name # name)

\* ---------------------------------------------------------- persistence
\* json.dump: a str becomes a JSON string, None becomes null; an entry is
\* written as its key and its six values in the order of the dict literal.
JsonValue(v) == IF v = None THEN <<"null">> ELSE <<"string", v>>
FromJson(j) == IF j = <<"null">> THEN None ELSE j[2]

\* DumpEntry with the two timestamps written in each other's place.
DumpEntry_swapped(e) ==
    <<e.name,
      <<JsonValue(e.info.phone), JsonValue(e.info.email),
        JsonValue(e.info.address), JsonValue(e.info.group),
        <<"string", e.info.updated_at>>, <<"string", e.info.created_at>>>>>>

DumpEntry(e) ==
    <<e.name,
      <<JsonValue(e.info.phone), JsonValue(e.info.email),
        JsonValue(e.info.address), JsonValue(e.info.group),
        <<"string", e.info.created_at>>, <<"string", e.info.updated_at>>>>>>

Dump(cs) == [i \in DOMAIN cs |-> DumpEntry(cs[i])]

LoadEntry(j) ==
    [name |-> j[1],
     info |-> [phone |-> FromJson(j[2][1]), email |-> FromJson(j[2][2]),
               address |-> FromJson(j[2][3]), group |-> FromJson(j[2][4]),
               created_at |-> j[2][5][2], updated_at |-> j[2][6][2]]]

NoFile == [exists |-> FALSE, complete |-> FALSE, entries |-> <<>>]

\* load_contacts
load_contacts(f) ==
    IF f.exists THEN [i \in DOMAIN f.entries |-> LoadEntry(f.entries[i])] ELSE <<>>

\* What a call of save_contacts can come to: the file is written whole; or
\* open() raises and the file is as it was; or open() has truncated the file
\* and the write raises with only some of the entries on disk.
SaveOutcomes(n) ==
    {[kind |-> "ok", k |-> 0], [kind |-> "open_fails", k |-> 0]}
    \cup {[kind |-> "write_fails", k |-> k] : k \in {0} \cup (1..(n - 1))}

SaveResults(cs) == SaveOutcomes(Len(cs))

save_contacts(cs, f, res) ==
    CASE res.kind = "ok" ->
            [exists |-> TRUE, complete |-> TRUE, entries |-> Dump(cs)]
      [] res.kind = "open_fails" -> f
      [] res.kind = "write_fails" ->
            [exists |-> TRUE, complete |-> FALSE,
             entries |-> SubSeq(Dump(cs), 1, res.k)]

\* --------------------------------------------------------------- inputs
\* The lines typed at the prompts.
NameAl == <<"A", "l">>
NameAlPadded == <<" ", "A", "l", " ">>
NameLowerAl == <<"a", "l">>
Blank == <<>>
Spaces == <<" ">>
\* "(555) 123-4567": 10 digits
PhoneTen == <<"(", "5", "5", "5", ")", " ", "1", "2", "3", "-", "4", "5", "6", "7">>
\* "555-123456": 9 digits
PhoneNine == <<"5", "5", "5", "-", "1", "2", "3", "4", "5", "6">>
\* "+123456789012345": 15 digits
PhoneFifteen == <<"+", "1", "2", "3", "4", "5", "6", "7", "8", "9", "0", "1", "2", "3", "4", "5">>
\* "1234567890123456": 16 digits
PhoneSixteen == <<"1", "2", "3", "4", "5", "6", "7", "8", "9", "0", "1", "2", "3", "4", "5", "6">>
\* "a@b.co", and "a@b.c" whose last label is too short
EmailGood == <<"a", "@", "b", ".", "c", "o">>
EmailBad == <<"a", "@", "b", ".", "c">>
AddressX == <<"x">>
GroupWork == <<"W", "o", "r", "k">>
GroupFamily == <<"F", "a", "m", "i", "l", "y">>
GroupOther == <<"O", "t", "h", "e", "r">>

\* What is typed into add_contact, from the name prompt on: every line
\* accepted at once; every prompt refused once first; a second name.
AddScripts ==
    { <<NameAl, PhoneTen, Blank, Blank, Blank>>,
      <<Spaces, NameAlPadded, PhoneNine, PhoneFifteen, EmailBad, EmailGood,
        AddressX, GroupWork>>,
      <<NameLowerAl, PhoneSixteen, PhoneTen, Blank, Blank, GroupFamily>> }

\* What is typed at the name prompt of update_contact and delete_contact.
LookupInputs == {NameAlPadded, NameLowerAl}

\* What is typed at the four field prompts of update_contact: nothing; a
\* phone and an email that do not validate, and a group; a phone, an email
\* and an address.
UpdateScripts ==
    { <<Blank, Spaces, Blank, Spaces>>,
      <<PhoneNine, EmailBad, Blank, GroupWork>>,
      <<PhoneFifteen, EmailGood, AddressX, Blank>> }

SearchInputs == {<<"A">>, <<"l", "x">>}

\* Menu choices that are none of "1".."8" (the choice is not stripped).
OtherChoices == {<<"9">>, <<" ", "1">>}

\* How far the clock moves between two readings.
ClockSteps == 0..1

\* ---------------------------------------------------------------- state
VARIABLES
    contacts,   \* main's dict: a sequence of [name, info] in insertion order
    file,       \* contacts_data.json
    csv,        \* contacts.csv
    now,        \* the clock's last reading
    pc,         \* "menu", "done" (the loop ended at its break) or "crashed"
    err,        \* the function that raised the exception that ended the run
    inp,        \* the lines read in the last menu iteration, the choice first
    out,        \* the messages printed in the last menu iteration
    shown,      \* the contacts listed in the last menu iteration
    stats,      \* the figures view_statistics printed in the last iteration
    ops         \* the menu iterations so far

vars == <<contacts, file, csv, now, pc, err, inp, out, shown, stats, ops>>

NoStats == [total |-> 0, groups |-> <<>>, recent |-> 0, at |-> <<>>]

\* main, up to its loop: no storage file, so load_contacts returns {}.
Init ==
    /\ contacts = load_contacts(NoFile)
    /\ file = NoFile
    /\ csv = NoFile
    /\ now = 0
    /\ pc = "menu"
    /\ err = ""
    /\ inp = <<>>
    /\ out = <<"No existing contacts file found. Starting fresh.">>
    /\ shown = <<>>
    /\ stats = NoStats
    /\ ops = 0

\* The loop is at `choice = input(...)`.
AwaitingChoice == pc = "menu" /\ ops < MaxOps

\* A call of save_contacts(cs) that ends a handler which has printed
\* `printed`: on success the loop goes on to `next`, else the exception
\* leaves main.
Persist(cs, printed, after, next) ==
    \E res \in SaveResults(cs) :
        /\ file' = save_contacts(cs, file, res)
        /\ pc' = IF res.kind = "ok" THEN next ELSE "crashed"
        /\ err' = IF res.kind = "ok" THEN "" ELSE "save_contacts"
        /\ out' = IF res.kind = "ok"
                  THEN printed \o <<"Contacts saved to contacts_data.json">> \o after
                  ELSE printed

NameOk(line) == Strip(line) # <<>>
PhoneOk(line) == validate_phone(Strip(line))[1]
EmailOk(line) == Strip(line) = <<>> \/ validate_email(Strip(line))

\* A prompt's loop: input() until a line passes the prompt's test.  The
\* index of the line it leaves with, from line i on; 0 if it accepts none.
Accepts(prompt, line) ==
    CASE prompt = "name" -> NameOk(line)
      [] prompt = "phone" -> PhoneOk(line)
      [] prompt = "email" -> EmailOk(line)

RECURSIVE FirstIdx(_, _, _)
FirstIdx(lines, i, prompt) ==
    IF i > Len(lines) THEN 0
    ELSE IF Accepts(prompt, lines[i]) THEN i
    ELSE FirstIdx(lines, i + 1, prompt)

Repeat(msg, n) == [i \in 1..n |-> msg]

\* ------------------------------------------------------------- handlers
\* add_contact: the three prompt loops, the two last prompts, the entry
\* with the clock read twice, the save.
add_contact(lines) ==
    LET ni == FirstIdx(lines, 1, "name")
        pi == IF ni = 0 THEN 0 ELSE FirstIdx(lines, ni + 1, "phone")
        ei == IF pi = 0 THEN 0 ELSE FirstIdx(lines, pi + 1, "email")
        name == Strip(lines[ni])
        cleaned == validate_phone(Strip(lines[pi]))[2]
        email == Strip(lines[ei])
        address == Strip(lines[ei + 1])
        group == IF Strip(lines[ei + 2]) = <<>> THEN GroupOther ELSE Strip(lines[ei + 2])
        printed == Repeat("Name cannot be empty!", ni - 1)
                   \o Repeat("Invalid phone number!", pi - ni - 1)
                   \o Repeat("Invalid email format!", ei - pi - 1)
                   \o <<"Contact added successfully!">>
    IN  /\ AwaitingChoice
        /\ ei # 0
        /\ Len(lines) = ei + 2
        /\ \E d1 \in ClockSteps, d2 \in ClockSteps :
             LET info == [phone |-> cleaned,
                          email |-> IF email # <<>> THEN email ELSE None,
                          address |-> IF address # <<>> THEN address ELSE None,
                          group |-> group,
                          created_at |-> IsoFormat(now + d1),
                          updated_at |-> IsoFormat(now + d1 + d2)]
                 cs == SetItem(contacts, name, info)
             IN  /\ contacts' = cs
                 /\ now' = now + d1 + d2
                 /\ Persist(cs, printed, <<>>, "menu")
        /\ inp' = <<<<"1">>>> \o lines
        /\ shown' = <<>>
        /\ stats' = NoStats
        /\ ops' = ops + 1
        /\ UNCHANGED csv

\* update_info with a blank group defaulted as add_contact defaults it.
update_info_default_group(info, fields, t) ==
    LET phone == Strip(fields[1])
        email == Strip(fields[2])
        address == Strip(fields[3])
        group == Strip(fields[4])
        checked == validate_phone(phone)
    IN  [phone |-> IF phone # <<>> /\ checked[1] THEN checked[2] ELSE info.phone,
         email |-> IF email # <<>> /\ validate_email(email) THEN email ELSE info.email,
         address |-> IF address # <<>> THEN address ELSE info.address,
         group |-> IF group # <<>> THEN group ELSE GroupOther,
         created_at |-> info.created_at,
         updated_at |-> IsoFormat(t)]

\* update_info refreshing both timestamps.
update_info_touch_created(info, fields, t) ==
    LET phone == Strip(fields[1])
        email == Strip(fields[2])
        address == Strip(fields[3])
        group == Strip(fields[4])
        checked == validate_phone(phone)
    IN  [phone |-> IF phone # <<>> /\ checked[1] THEN checked[2] ELSE info.phone,
         email |-> IF email # <<>> /\ validate_email(email) THEN email ELSE info.email,
         address |-> IF address # <<>> THEN address ELSE info.address,
         group |-> IF group # <<>> THEN group ELSE info.group,
         created_at |-> IsoFormat(t),
         updated_at |-> IsoFormat(t)]

\* update_info refreshing created_at in place of updated_at.
update_info_wrong_key(info, fields, t) ==
    LET phone == Strip(fields[1])
        email == Strip(fields[2])
        address == Strip(fields[3])
        group == Strip(fields[4])
        checked == validate_phone(phone)
    IN  [phone |-> IF phone # <<>> /\ checked[1] THEN checked[2] ELSE info.phone,
         email |-> IF email # <<>> /\ validate_email(email) THEN email ELSE info.email,
         address |-> IF address # <<>> THEN address ELSE info.address,
         group |-> IF group # <<>> THEN group ELSE info.group,
         created_at |-> IsoFormat(t),
         updated_at |-> info.updated_at]

\* The four field prompts of update_contact and the refresh of updated_at.
update_info(info, fields, t) ==
    LET phone == Strip(fields[1])
        email == Strip(fields[2])
        address == Strip(fields[3])
        group == Strip(fields[4])
        checked == validate_phone(phone)
    IN  [phone |-> IF phone # <<>> /\ checked[1] THEN checked[2] ELSE info.phone,
         email |-> IF email # <<>> /\ validate_email(email) THEN email ELSE info.email,
         address |-> IF address # <<>> THEN address ELSE info.address,
         group |-> IF group # <<>> THEN group ELSE info.group,
         created_at |-> info.created_at,
         updated_at |-> IsoFormat(t)]

update_contact(line) ==
    LET name == Strip(line)
    IN  /\ AwaitingChoice
        /\ shown' = <<>>
        /\ stats' = NoStats
        /\ ops' = ops + 1
        /\ UNCHANGED csv
        /\ \/ /\ ~Has(contacts, name)
              /\ inp' = <<<<"3">>, line>>
              /\ out' = <<"Contact not found!">>
              /\ UNCHANGED <<contacts, file, now, pc, err>>
           \/ /\ Has(contacts, name)
              /\ \E fields \in UpdateScripts, d \in ClockSteps :
                   LET cs == SetItem(contacts, name,
                                     update_info(GetItem(contacts, name), fields, now + d))
                   IN  /\ inp' = <<<<"3">>, line>> \o fields
                       /\ contacts' = cs
                       /\ now' = now + d
                       /\ Persist(cs, <<"Leave blank to keep existing value.",
                                        "Contact updated successfully!">>, <<>>, "menu")

\* delete_contact with the save after the if/else, not inside it.
delete_contact_always_saves(line) ==
    LET name == Strip(line)
        cs == DelItem(contacts, name)
    IN  /\ AwaitingChoice
        /\ inp' = <<<<"4">>, line>>
        /\ shown' = <<>>
        /\ stats' = NoStats
        /\ ops' = ops + 1
        /\ UNCHANGED <<csv, now>>
        /\ contacts' = cs
        /\ Persist(cs, IF Has(contacts, name) THEN <<"Contact deleted!">>
                       ELSE <<"Contact not found!">>, <<>>, "menu")

delete_contact(line) ==
    LET name == Strip(line)
        cs == DelItem(contacts, name)
    IN  /\ AwaitingChoice
        /\ inp' = <<<<"4">>, line>>
        /\ shown' = <<>>
        /\ stats' = NoStats
        /\ ops' = ops + 1
        /\ UNCHANGED <<csv, now>>
        /\ \/ /\ Has(contacts, name)
              /\ contacts' = cs
              /\ Persist(cs, <<"Contact deleted!">>, <<>>, "menu")
           \/ /\ ~Has(contacts, name)
              /\ out' = <<"Contact not found!">>
              /\ UNCHANGED <<contacts, file, pc, err>>

\* Choice "8": the last save, the farewell, the break.
exit_choice ==
    /\ AwaitingChoice
    /\ Persist(contacts, <<>>,
               <<"Thank you for using Contact Management System!">>, "done")
    /\ inp' = <<<<"8">>>>
    /\ shown' = <<>>
    /\ stats' = NoStats
    /\ ops' = ops + 1
    /\ UNCHANGED <<contacts, csv, now>>

\* Any other choice.
invalid_choice(choice) ==
    /\ AwaitingChoice
    /\ inp' = <<choice>>
    /\ out' = <<"Invalid choice!">>
    /\ shown' = <<>>
    /\ stats' = NoStats
    /\ ops' = ops + 1
    /\ UNCHANGED <<contacts, file, csv, now, pc, err>>

\* What is printed of a contact: None fields are left out.
Listed(items) == SelectSeq(items, LAMBDA v : v # None)

\* search_contact: the term is lowered, not stripped.
search_contact(line) ==
    LET term == StrLower(line)
        results == SelectSeq(contacts, LAMBDA e : Contains(StrLower(e.name), term))
    IN  /\ AwaitingChoice
        /\ inp' = <<<<"2">>, line>>
        /\ out' = IF results = <<>> THEN <<"No contacts found.">> ELSE <<"Found contact(s):">>
        /\ shown' = [i \in DOMAIN results |->
                        Listed(<<results[i].name, results[i].info.phone,
                                 results[i].info.email, results[i].info.address,
                                 results[i].info.group>>)]
        /\ stats' = NoStats
        /\ ops' = ops + 1
        /\ UNCHANGED <<contacts, file, csv, now, pc, err>>

view_all_contacts ==
    /\ AwaitingChoice
    /\ inp' = <<<<"5">>>>
    /\ out' = IF contacts = <<>> THEN <<"ALL CONTACTS", "No contacts available.">>
              ELSE <<"ALL CONTACTS">>
    /\ shown' = [i \in DOMAIN contacts |->
                    Listed(<<contacts[i].name, contacts[i].info.phone,
                             contacts[i].info.email, contacts[i].info.group>>)]
    /\ stats' = NoStats
    /\ ops' = ops + 1
    /\ UNCHANGED <<contacts, file, csv, now, pc, err>>

\* csv.writer writes None as the empty field.
CsvField(v) == IF v = None THEN <<>> ELSE v
CsvHeader == <<<<"N", "a", "m", "e">>, <<"P", "h", "o", "n", "e">>,
               <<"E", "m", "a", "i", "l">>, <<"A", "d", "d", "r", "e", "s", "s">>,
               <<"G", "r", "o", "u", "p">>>>
\* CsvRow with the address written before the email.
CsvRow_swapped(e) ==
    <<e.name, CsvField(e.info.phone), CsvField(e.info.address),
      CsvField(e.info.email), CsvField(e.info.group)>>

CsvRow(e) ==
    <<e.name, CsvField(e.info.phone), CsvField(e.info.email),
      CsvField(e.info.address), CsvField(e.info.group)>>
CsvRows(cs) == <<CsvHeader>> \o [i \in DOMAIN cs |-> CsvRow(cs[i])]

\* What the write of contacts.csv can come to: as save_contacts, with k the
\* rows on disk when the write raises.
CsvOutcomes(cs) == SaveOutcomes(Len(cs) + 1)

export_to_csv ==
    /\ AwaitingChoice
    /\ \E res \in CsvOutcomes(contacts) :
        /\ csv' = CASE res.kind = "ok" ->
                        [exists |-> TRUE, complete |-> TRUE,
                         entries |-> CsvRows(contacts)]
                    [] res.kind = "open_fails" -> csv
                    [] res.kind = "write_fails" ->
                        [exists |-> TRUE, complete |-> FALSE,
                         entries |-> SubSeq(CsvRows(contacts), 1, res.k)]
        /\ pc' = IF res.kind = "ok" THEN "menu" ELSE "crashed"
        /\ err' = IF res.kind = "ok" THEN "" ELSE "export_to_csv"
        /\ out' = IF res.kind = "ok" THEN <<"Contacts exported to contacts.csv">> ELSE <<>>
    /\ inp' = <<<<"6">>>>
    /\ shown' = <<>>
    /\ stats' = NoStats
    /\ ops' = ops + 1
    /\ UNCHANGED <<contacts, file, now>>

\* groups[g] = groups.get(g, 0) + 1
Bump(groups, g) ==
    IF \E i \in DOMAIN groups : groups[i].group = g
    THEN [groups EXCEPT ![CHOOSE i \in DOMAIN groups : groups[i].group = g].count = @ + 1]
    ELSE Append(groups, [group |-> g, count |-> 1])

RECURSIVE CountGroups(_, _)
CountGroups(cs, groups) ==
    IF cs = <<>> THEN groups
    ELSE CountGroups(Tail(cs), Bump(groups, Head(cs).info.group))

\* The second loop: at[i] is the clock read while contact i is examined.
\* IsRecent with the seventh day left out.
IsRecent_strict(info, t) == DeltaDays(t, FromIsoFormat(info.updated_at)) < RecentDays

IsRecent(info, t) == DeltaDays(t, FromIsoFormat(info.updated_at)) <= RecentDays

RECURSIVE CountRecent(_, _)
CountRecent(cs, at) ==
    IF cs = <<>> THEN 0
    ELSE (IF IsRecent(Head(cs).info, Head(at)) THEN 1 ELSE 0)
         + CountRecent(Tail(cs), Tail(at))

\* n readings of a clock that stood at t: each is the one before or a tick on.
ClockReads(t, n) ==
    {at \in [1..n -> t..(t + n)] :
        \A i \in 1..n : at[i] - (IF i = 1 THEN t ELSE at[i - 1]) \in ClockSteps}

view_statistics ==
    /\ AwaitingChoice
    /\ \E at \in ClockReads(now, Len(contacts)) :
        /\ stats' = [total |-> Len(contacts),
                     groups |-> CountGroups(contacts, <<>>),
                     recent |-> CountRecent(contacts, at),
                     at |-> at]
        /\ now' = IF at = <<>> THEN now ELSE at[Len(at)]
    /\ inp' = <<<<"7">>>>
    /\ out' = <<"CONTACT STATISTICS">>
    /\ shown' = <<>>
    /\ ops' = ops + 1
    /\ UNCHANGED <<contacts, file, csv, pc, err>>

\* ------------------------------------------------------ the menu loop
\* One iteration: at the prompt, the choice is read and its handler runs.
Next ==
    \/ AwaitingChoice /\ \E lines \in AddScripts : add_contact(lines)
    \/ AwaitingChoice /\ \E line \in SearchInputs : search_contact(line)
    \/ AwaitingChoice /\ \E line \in LookupInputs : update_contact(line)
    \/ AwaitingChoice /\ \E line \in LookupInputs : delete_contact(line)
    \/ view_all_contacts
    \/ export_to_csv
    \/ view_statistics
    \/ exit_choice
    \/ AwaitingChoice /\ \E choice \in OtherChoices : invalid_choice(choice)

Spec == Init /\ [][Next]_vars

\* ------------------------------------ statistics on a stored collection
\* The run starts from a storage file that holds up to MaxStatLen contacts
\* of two groups, last updated at some tick up to MaxStatUpd, and the clock
\* stands a week or so later; the one menu iteration left is choice "7".
StatNames == <<NameAl, NameLowerAl, <<"B", "o">>, <<"C", "y">>, <<"D", "i">>>>
StatGroups == {GroupWork, GroupFamily}

StatInfo(group, t) ==
    [phone |-> validate_phone(PhoneTen)[2], email |-> None, address |-> None,
     group |-> group, created_at |-> IsoFormat(t), updated_at |-> IsoFormat(t)]

StatCollections ==
    UNION {{[i \in 1..n |-> [name |-> StatNames[i],
                             info |-> StatInfo(c[i][1], c[i][2])]] :
                c \in [1..n -> StatGroups \X (0..MaxStatUpd)]} :
           n \in 0..MaxStatLen}

InitStats ==
    /\ \E cs \in StatCollections :
         /\ file = [exists |-> TRUE, complete |-> TRUE, entries |-> Dump(cs)]
         /\ contacts = load_contacts(file)
    /\ csv = NoFile
    /\ now \in (MaxStatNow - 2)..MaxStatNow
    /\ pc = "menu"
    /\ err = ""
    /\ inp = <<>>
    /\ out = <<>>
    /\ shown = <<>>
    /\ stats = NoStats
    /\ ops = MaxOps - 1

NextStats == view_statistics

StatsSpec == InitStats /\ [][NextStats]_vars

\* ------------------------------------------------------------ properties
\* The choice read in the last menu iteration.
Choice == IF inp = <<>> THEN <<>> ELSE inp[1]
\* The last iteration ran to the end of a successful save_contacts.
Saved == \E k \in DOMAIN out : out[k] = "Contacts saved to contacts_data.json"
\* The storage file parses to the collection in memory.
FileIsMemory == file.exists /\ file.complete /\ load_contacts(file) = contacts
DigitCount(s) == Len(SelectSeq(s, LAMBDA c : c \in Digit))
\* The name add_contact accepted, from the lines it read.
NameAdded(read) == Strip(read[1 + FirstIdx(Tail(read), 1, "name")])
CreatedAt(e) == FromIsoFormat(e.info.created_at)
UpdatedAt(e) == FromIsoFormat(e.info.updated_at)

\* C1: in every state reached from the empty collection, every stored phone
\* is made of decimal digits only and is 10 to 15 characters long.
C1_PhonesAreDigits ==
    \A i \in DOMAIN contacts :
        LET phone == contacts[i].info.phone
        IN  /\ \A k \in DOMAIN phone : phone[k] \in Digit
            /\ MinPhoneDigits <= Len(phone)
            /\ Len(phone) <= MaxPhoneDigits

\* An update whose phone input does not validate has run on a stored contact.
C1_Witness ==
    /\ pc = "menu"
    /\ Choice = <<"3">>
    /\ Len(inp) = 6
    /\ Strip(inp[3]) # <<>>
    /\ DigitCount(inp[3]) < MinPhoneDigits
    /\ Saved

\* C2: at the menu prompt after an add, update or delete that saved, and
\* after the break of choice "8", the storage file exists, is whole and
\* parses to the collection in memory; at every menu prompt the storage file,
\* if there is one, is whole and parses to the collection in memory.
C2_StorageIsMemory ==
    /\ (pc = "menu" /\ Choice \in {<<"1">>, <<"3">>, <<"4">>} /\ Saved) => FileIsMemory
    /\ pc = "done" => FileIsMemory
    /\ pc = "menu" => /\ load_contacts(file) = contacts
                      /\ file.exists => file.complete

\* An update of one of two contacts has been saved, with the clock moved on.
C2_Witness ==
    /\ pc = "menu"
    /\ Choice = <<"3">>
    /\ Saved
    /\ Len(contacts) = 2
    /\ \E i \in DOMAIN contacts : UpdatedAt(contacts[i]) > CreatedAt(contacts[i])

\* C3: every update_contact and delete_contact, one whose save_contacts
\* raises included, either applies its change to the collection in memory and
\* to the storage file, or changes neither.
C3_NoPartialCommit ==
    [][Choice' \in {<<"3">>, <<"4">>} =>
          \/ contacts' = contacts /\ file' = file
          \/ /\ file'.exists
             /\ file'.complete
             /\ load_contacts(file') = contacts']_vars

\* C4: update_contact of a stored name with the four fields left blank
\* changes nothing but that contact's updated_at, which becomes the clock's
\* reading; when the save succeeds the storage file holds the collection.
C4_BlankUpdateTouchesUpdatedAt ==
    [][(Choice' = <<"3">> /\ Len(inp') = 6
        /\ \A k \in 3..6 : Strip(inp'[k]) = <<>>) =>
          /\ Len(contacts') = Len(contacts)
          /\ \A i \in DOMAIN contacts :
                /\ contacts'[i].name = contacts[i].name
                /\ IF contacts[i].name = Strip(inp'[2])
                   THEN /\ contacts'[i].info =
                             [contacts[i].info EXCEPT !.updated_at = IsoFormat(now')]
                        /\ now' \in {now + d : d \in ClockSteps}
                   ELSE contacts'[i].info = contacts[i].info
          /\ pc' = "menu" => file'.exists /\ file'.complete
                             /\ load_contacts(file') = contacts']_vars

\* A blank update of one of two contacts, whose group is not the default,
\* has been saved after the clock moved on.
C4_Witness ==
    /\ pc = "menu"
    /\ Choice = <<"3">>
    /\ Len(inp) = 6
    /\ \A k \in 3..6 : Strip(inp[k]) = <<>>
    /\ Len(contacts) = 2
    /\ \E i \in DOMAIN contacts :
          /\ contacts[i].name = Strip(inp[2])
          /\ contacts[i].info.group # GroupOther
          /\ contacts[i].info.updated_at = IsoFormat(now)
          /\ UpdatedAt(contacts[i]) > CreatedAt(contacts[i])

\* C5: update_contact and delete_contact of a name that, stripped, is no key
\* of the collection print "Contact not found!" and nothing else, change
\* neither the collection nor the storage file, and read no line after the
\* name.
C5_NotFoundChangesNothing ==
    [][(Choice' \in {<<"3">>, <<"4">>}
        /\ \A i \in DOMAIN contacts : contacts[i].name # Strip(inp'[2])) =>
          /\ out' = <<"Contact not found!">>
          /\ contacts' = contacts
          /\ file' = file
          /\ Len(inp') = 2
          /\ pc' = pc]_vars

\* An update has looked up "al" in a collection whose only key is "Al".
C5_Witness ==
    /\ Choice = <<"3">>
    /\ inp[2] = NameLowerAl
    /\ out = <<"Contact not found!">>
    /\ Keys(contacts) = {NameAl}

\* C6, as claimed: while a name stays a key, its created_at never changes,
\* whatever the operation.
C6_CreatedAtNeverChanges ==
    [][\A i \in DOMAIN contacts, j \in DOMAIN contacts' :
          contacts'[j].name = contacts[i].name =>
             contacts'[j].info.created_at = contacts[i].info.created_at]_vars

\* C6, amended: a step keeps the created_at of every name that stays a key,
\* unless the step is an add_contact of that very name, which sets created_at
\* to the clock's reading at that add.
C6_CreatedAtKeptUnlessAddedAgain ==
    [][\A i \in DOMAIN contacts, j \in DOMAIN contacts' :
          contacts'[j].name = contacts[i].name =>
             IF Choice' = <<"1">> /\ NameAdded(inp') = contacts[i].name
             THEN /\ CreatedAt(contacts'[j]) \in {now + d : d \in ClockSteps}
                  /\ contacts'[j].info.created_at = IsoFormat(CreatedAt(contacts'[j]))
             ELSE contacts'[j].info.created_at = contacts[i].info.created_at]_vars

\* An update has been saved on a contact created before the clock's reading.
C6_Witness ==
    /\ pc = "menu"
    /\ Choice = <<"3">>
    /\ Len(inp) = 6
    /\ \E i \in DOMAIN contacts :
          /\ contacts[i].name = Strip(inp[2])
          /\ CreatedAt(contacts[i]) < now
          /\ UpdatedAt(contacts[i]) = now

\* C7: every contact's updated_at is its created_at or later.
C7_UpdatedNotBeforeCreated ==
    \A i \in DOMAIN contacts : UpdatedAt(contacts[i]) >= CreatedAt(contacts[i])

\* One contact was added with the clock moving between the two readings, and
\* another was updated later than it was created.
C7_Witness ==
    /\ Len(contacts) = 2
    /\ Choice = <<"3">>
    /\ Saved
    /\ \A i \in DOMAIN contacts : UpdatedAt(contacts[i]) > CreatedAt(contacts[i])

\* C8: nothing but an exception raised in save_contacts ends the run
\* abnormally.
C8_OnlySaveAborts == pc = "crashed" => err = "save_contacts"

\* C9: search_contact, view_all_contacts, export_to_csv and view_statistics
\* change neither the collection nor the storage file; export_to_csv alone
\* writes contacts.csv, and what it has written when it returns is the header
\* row and one row per contact, in the collection's order.
C9_ReadOnlyHandlers ==
    [][Choice' \in {<<"2">>, <<"5">>, <<"6">>, <<"7">>} =>
          /\ contacts' = contacts
          /\ file' = file
          /\ Choice' # <<"6">> => csv' = csv
          /\ (Choice' = <<"6">> /\ pc' = "menu") =>
                /\ csv'.exists
                /\ csv'.complete
                /\ Len(csv'.entries) = Len(contacts) + 1
                /\ csv'.entries[1] = CsvHeader
                /\ \A i \in DOMAIN contacts :
                      LET info == contacts[i].info
                      IN  csv'.entries[i + 1] =
                             <<contacts[i].name, info.phone,
                               IF info.email = None THEN <<>> ELSE info.email,
                               IF info.address = None THEN <<>> ELSE info.address,
                               info.group>>]_vars

\* Two contacts, one with an email and an address, have been exported.
C9_Witness ==
    /\ pc = "menu"
    /\ Choice = <<"6">>
    /\ Len(contacts) = 2
    /\ Len(csv.entries) = 3
    /\ \E i \in DOMAIN contacts :
          contacts[i].info.email # None /\ contacts[i].info.address # None

\* The contacts of group g.
InGroup(g) == {i \in DOMAIN contacts : contacts[i].info.group = g}
\* The totals and the per-group counts view_statistics is to print.
StatsCounts ==
    /\ stats.total = Len(contacts)
    /\ \A k \in DOMAIN stats.groups :
          /\ InGroup(stats.groups[k].group) # {}
          /\ stats.groups[k].count = Cardinality(InGroup(stats.groups[k].group))
    /\ \A i \in DOMAIN contacts :
          \E k \in DOMAIN stats.groups : stats.groups[k].group = contacts[i].info.group
    /\ \A k, l \in DOMAIN stats.groups :
          k < l =>
             \E i \in InGroup(stats.groups[k].group) :
                \A j \in InGroup(stats.groups[l].group) : i < j

\* C10, as claimed: "Recently Updated" counts the contacts whose updated_at
\* lies on a calendar day at most 7 days before the day of the clock's
\* reading.
C10_RecentByCalendarDay ==
    Choice = <<"7">> =>
       /\ StatsCounts
       /\ stats.recent =
             Cardinality({i \in DOMAIN contacts :
                             IsoFormat(stats.at[i])[1]
                                - contacts[i].info.updated_at[1] <= RecentDays})

\* C10, amended: "Recently Updated" counts the contacts for which the time
\* from updated_at to the clock's reading, in whole days rounded down, is at
\* most 7; the total is the size of the collection, and the groups are listed
\* in the order they first occur, each with the number of its contacts.
C10_RecentByElapsedDays ==
    Choice = <<"7">> =>
       /\ StatsCounts
       /\ Len(stats.at) = Len(contacts)
       /\ stats.recent =
             Cardinality({i \in DOMAIN contacts :
                             (stats.at[i] - UpdatedAt(contacts[i])) \div TicksPerDay
                                <= RecentDays})

\* Groups Work, Work, Family: Work 2, Family 1, total 3; one contact updated
\* more than 7 whole days before, one exactly 7 whole days before.
C10_Witness ==
    /\ Choice = <<"7">>
    /\ stats.total = 3
    /\ stats.groups = <<[group |-> GroupWork, count |-> 2],
                        [group |-> GroupFamily, count |-> 1]>>
    /\ stats.recent = 2
    /\ \E i \in DOMAIN contacts :
          (stats.at[i] - UpdatedAt(contacts[i])) \div TicksPerDay = RecentDays

====
